---- MODULE Spec2Model ----
(***************************************************************************)
(* Model of translate.py: the token bucket (TokenBucket), the retried      *)
(* remote call with response reconciliation (translate_texts) and the      *)
(* batching run over a presentation (translate_presentation_with_batching).*)
(*                                                                         *)
(* A text is a sequence of one-character strings.  Time is counted in      *)
(* ticks; one tick refills one token unit and one token is TokenUnit       *)
(* units, so   tokens + time_passed * rate   is   tokens + ticks.          *)
(***************************************************************************)
EXTENDS Integers, Sequences, FiniteSets, TLC

(* ---------------------------- bounds ----------------------------------- *)
TokenUnit == 2          \* token units per token (resolution of the float)
MaxStep == 1            \* longest time, in ticks, between two steps of a run
MaxLate == 1            \* longest oversleep of time.sleep, in ticks
MaxTime == 3            \* the clock is advanced freely up to this tick
MaxCalls == 4           \* get_token calls started in the bucket specification
MaxRuns == 3            \* text runs in the presentation
MaxBatchSize == 2       \* largest batch_size tried
MaxTexts == 3           \* longest texts list given to translate_texts alone
MaxRespLen == 7         \* longest response text of the backend tried alone
RequestsPerMinute == 2  \* requests_per_minute the bucket is built with
MaxRetriesArg == 4      \* largest max_retries a translator is built with
MaxRequests == 2        \* most /translate requests served one after another

(* ------------------------ program constants ---------------------------- *)
StopAfterAttempt == 3   \* stop_after_attempt(3)
WaitMin == 4            \* wait_exponential(min=4)
WaitMax == 10           \* wait_exponential(max=10)
WaitMultiplier == 1     \* wait_exponential(multiplier=1)
DefaultMaxRetries == 3  \* __init__(..., max_retries=3)

\* line 62: the model id a translator is built with; line 452: the model
\* a request selects when its form names none
DefaultModelId == "claude-3-5-haiku"
FormDefaultModel == "claude-3-haiku"
Models == {DefaultModelId, FormDefaultModel}

Threads == {"t1", "t2"}
NoThread == "none"

(* ------------------------------ texts ---------------------------------- *)
Min(a, b) == IF a < b THEN a ELSE b
Max(a, b) == IF a > b THEN a ELSE b

RECURSIVE Pow2(_)
Pow2(n) == IF n <= 0 THEN 1 ELSE 2 * Pow2(n - 1)

Take(s, n) == SubSeq(s, 1, Min(n, Len(s)))
Drop(s, n) == SubSeq(s, n + 1, Len(s))

IsSpace(c) == c \in {" ", "\n"}

RECURSIVE LStrip(_)
LStrip(s) == IF s # <<>> /\ IsSpace(Head(s)) THEN LStrip(Tail(s)) ELSE s

RECURSIVE RStrip(_)
RStrip(s) ==
    IF s # <<>> /\ IsSpace(s[Len(s)]) THEN RStrip(SubSeq(s, 1, Len(s) - 1))
    ELSE s

\* str.strip()
Strip(s) == RStrip(LStrip(s))

\* the delimiter joined with, "\n---\n", and the one split on, '---'
JoinDelimiter == <<"\n", "-", "-", "-", "\n">>
SplitDelimiter == <<"-", "-", "-">>

StartsWith(s, d) == Len(s) >= Len(d) /\ SubSeq(s, 1, Len(d)) = d

\* str.split(sep): cut at every occurrence of sep, found left to right
RECURSIVE SplitFrom(_, _, _)
SplitFrom(s, sep, cur) ==
    IF s = <<>> THEN <<cur>>
    ELSE IF StartsWith(s, sep)
         THEN <<cur>> \o SplitFrom(Drop(s, Len(sep)), sep, <<>>)
         ELSE SplitFrom(Tail(s), sep, Append(cur, Head(s)))

Split(s, sep) == SplitFrom(s, sep, <<>>)

\* sep.join(texts)
RECURSIVE Join(_, _)
Join(texts, sep) ==
    IF texts = <<>> THEN <<>>
    ELSE IF Len(texts) = 1 THEN texts[1]
    ELSE texts[1] \o sep \o Join(Tail(texts), sep)

SeqsUpTo(S, n) == UNION {[1..k -> S] : k \in 0..n}

(* ------------------------- TokenBucket --------------------------------- *)
capacity == RequestsPerMinute * TokenUnit
OneToken == TokenUnit

\* the refill without the cap at capacity
RefillNoCap(tok, last, t) == tok + (t - last)

\* tokens = min(capacity, tokens + time_passed * rate)
Refill(tok, last, t) == Min(capacity, tok + (t - last))

\* sleeping only when the bucket is empty
MustSleepEmpty(tok) == tok <= 0

\* if self.tokens < 1
MustSleep(tok) == tok < OneToken

\* sleep_time = (1 - tokens) / rate
SleepTime(tok) == OneToken - tok

\* one whole get_token call of a caller that finds the lock free, entered at
\* time t, time.sleep oversleeping by late ticks
GetToken(tok, last, t, late) ==
    LET filled == Refill(tok, last, t) IN
    IF MustSleep(filled)
    THEN [tokens |-> 0, last_update |-> t + SleepTime(filled) + late,
          now |-> t + SleepTime(filled) + late, slept |-> TRUE]
    ELSE [tokens |-> filled - OneToken, last_update |-> t,
          now |-> t, slept |-> FALSE]

(* ------------------------------ state ---------------------------------- *)
VARIABLES
    \* TokenBucket
    tokens, last_update, lock,
    \* the clock read by time.time()
    now,
    \* threads inside TokenBucket.get_token: position, wake-up time of the
    \* sleep, token count found before and after the refill, whether the call
    \* slept, and the number of calls started and returned
    tpc, wake, pre, post, slept, calls, returned,
    \* the last get_token call that returned
    grant,
    \* the presentation: text of every run now and when it was opened
    doc, orig,
    \* translate_presentation_with_batching
    pc, batch_size, pos, text_batch, text_locations, total_processed,
    failed_batches, translations, widx, phase, saved, exc,
    \* translate_texts and its retry decorator
    batch, attempt_number, attempts, response, waits, error_log,
    \* the max_retries the translator was built with, and the number of
    \* bedrock.converse calls made so far
    max_retries, remote_calls,
    \* another run of translate_presentation_with_batching in the same
    \* process: its position, its total_items and its total_processed
    other_pc, other_total, other_processed,
    \* the module-level progress counter
    translation_progress,
    \* the /translate requests received so far, translator.model_id, the model
    \* the request of the run selected, and the modelId values the run has
    \* passed to bedrock.converse
    requests, model_id, selected_model, used_models,
    \* every batch handed to translate_texts by the run, with what became of it
    dispatch_log

bvars == <<tokens, last_update, lock, now, tpc, wake, pre, post, slept,
           calls, returned, grant>>
cvars == <<batch, attempt_number, attempts, response, waits, error_log,
           max_retries, remote_calls>>
ovars == <<other_pc, other_total, other_processed>>
pvars == <<doc, orig, pc, batch_size, pos, text_batch, text_locations,
           total_processed, failed_batches, translations, widx, phase, saved,
           exc, translation_progress, dispatch_log>>
rvars == <<requests, model_id, selected_model, used_models>>
vars == <<bvars, cvars, pvars, ovars, rvars>>

NoGrant == [thread |-> NoThread, pre |-> 0, post |-> 0, slept |-> FALSE,
            tokens |-> 0, at |-> 0]

\* TokenBucket.__init__ at time 0, no thread inside get_token
BucketInit ==
    /\ tokens = capacity
    /\ last_update = 0
    /\ lock = NoThread
    /\ now = 0
    /\ tpc = [t \in Threads |-> "idle"]
    /\ wake = [t \in Threads |-> 0]
    /\ pre = [t \in Threads |-> 0]
    /\ post = [t \in Threads |-> 0]
    /\ slept = [t \in Threads |-> FALSE]
    /\ calls = 0
    /\ returned = 0
    /\ grant = NoGrant

(* ---------------- TokenBucket.get_token, thread by thread --------------- *)
\* get_token without the lock
LockIgnored(l) == TRUE

\* with self.lock: the lock is free
LockFree(l) == l = NoThread

\* a thread calls get_token and blocks on the lock
Enter(t) ==
    /\ tpc[t] = "idle"
    /\ calls < MaxCalls
    /\ calls' = calls + 1
    /\ tpc' = [tpc EXCEPT ![t] = "waiting"]
    /\ UNCHANGED <<tokens, last_update, lock, now, wake, pre, post, slept,
                   returned, grant>>
    /\ UNCHANGED <<cvars, pvars, ovars, rvars>>

Acquire(t) ==
    /\ tpc[t] = "waiting"
    /\ LockFree(lock)
    /\ lock' = t
    /\ tpc' = [tpc EXCEPT ![t] = "locked"]
    /\ UNCHANGED <<tokens, last_update, now, wake, pre, post, slept, calls,
                   returned, grant>>
    /\ UNCHANGED <<cvars, pvars, ovars, rvars>>

\* lines 40-43
RefillStep(t) ==
    /\ tpc[t] = "locked"
    /\ pre' = [pre EXCEPT ![t] = tokens]
    /\ post' = [post EXCEPT ![t] = Refill(tokens, last_update, now)]
    /\ tokens' = Refill(tokens, last_update, now)
    /\ last_update' = now
    /\ tpc' = [tpc EXCEPT ![t] = "refilled"]
    /\ UNCHANGED <<lock, now, wake, slept, calls, returned, grant>>
    /\ UNCHANGED <<cvars, pvars, ovars, rvars>>

\* lines 45-47: too few tokens, go to sleep
SleepStart(t) ==
    /\ tpc[t] = "refilled"
    /\ MustSleep(tokens)
    /\ wake' = [wake EXCEPT ![t] = now + SleepTime(tokens)]
    /\ tpc' = [tpc EXCEPT ![t] = "sleeping"]
    /\ UNCHANGED <<tokens, last_update, lock, now, pre, post, slept, calls,
                   returned, grant>>
    /\ UNCHANGED <<cvars, pvars, ovars, rvars>>

\* lines 48-49: time.sleep returned
SleepEnd(t) ==
    /\ tpc[t] = "sleeping"
    /\ now >= wake[t]
    /\ tokens' = 0
    /\ last_update' = now
    /\ slept' = [slept EXCEPT ![t] = TRUE]
    /\ tpc' = [tpc EXCEPT ![t] = "release"]
    /\ UNCHANGED <<lock, now, wake, pre, post, calls, returned, grant>>
    /\ UNCHANGED <<cvars, pvars, ovars, rvars>>

\* lines 50-51
DeductStep(t) ==
    /\ tpc[t] = "refilled"
    /\ ~MustSleep(tokens)
    /\ tokens' = tokens - OneToken
    /\ slept' = [slept EXCEPT ![t] = FALSE]
    /\ tpc' = [tpc EXCEPT ![t] = "release"]
    /\ UNCHANGED <<last_update, lock, now, wake, pre, post, calls, returned,
                   grant>>
    /\ UNCHANGED <<cvars, pvars, ovars, rvars>>

\* the with block is left and get_token returns
Release(t) ==
    /\ tpc[t] = "release"
    /\ lock' = IF lock = t THEN NoThread ELSE lock
    /\ returned' = returned + 1
    /\ grant' = [thread |-> t, pre |-> pre[t], post |-> post[t],
                 slept |-> slept[t], tokens |-> tokens, at |-> now]
    /\ tpc' = [tpc EXCEPT ![t] = "idle"]
    /\ UNCHANGED <<tokens, last_update, now, wake, pre, post, slept, calls>>
    /\ UNCHANGED <<cvars, pvars, ovars, rvars>>

\* the clock advances; it always can while a thread sleeps
Tick ==
    /\ \/ now < MaxTime
       \/ \E t \in Threads : tpc[t] = "sleeping" /\ wake[t] > now
    /\ now' = now + 1
    /\ UNCHANGED <<tokens, last_update, lock, tpc, wake, pre, post, slept,
                   calls, returned, grant>>
    /\ UNCHANGED <<cvars, pvars, ovars, rvars>>

\* threads calling get_token on one shared bucket
NextBucket ==
    \/ \E t \in Threads : Enter(t)
    \/ \E t \in Threads : Acquire(t)
    \/ \E t \in Threads : RefillStep(t)
    \/ \E t \in Threads : SleepStart(t)
    \/ \E t \in Threads : SleepEnd(t)
    \/ \E t \in Threads : DeductStep(t)
    \/ \E t \in Threads : Release(t)
    \/ Tick

(* --------------------------- translate_texts --------------------------- *)
\* what bedrock.converse did: raised, answered without output.message,
\* answered with an empty content list, or answered with a text
Raise == [kind |-> "raise", text |-> <<>>]
NoOutput == [kind |-> "no_output", text |-> <<>>]
EmptyContent == [kind |-> "empty_content", text |-> <<>>]
TextResponse(s) == [kind |-> "text", text |-> s]
NoResponse == [kind |-> "none", text |-> <<>>]

\* [t.strip() for t in response_text.split('---')]
Segments(response_text) ==
    LET parts == Split(response_text, SplitDelimiter)
    IN  [k \in 1..Len(parts) |-> Strip(parts[k])]

\* padding with the first original instead of the one at the same index
RECURSIVE PadFromStart(_, _)
PadFromStart(tr, texts) ==
    IF Len(tr) < Len(texts)
    THEN PadFromStart(Append(tr, texts[1]), texts)
    ELSE tr

\* while len(translations) < len(texts):
\*     translations.append(texts[len(translations)])
RECURSIVE PadWithOriginals(_, _)
PadWithOriginals(tr, texts) ==
    IF Len(tr) < Len(texts)
    THEN PadWithOriginals(Append(tr, texts[Len(tr) + 1]), texts)
    ELSE tr

\* the repair without the slice translations[:len(texts)]
ReconcileNoTruncate(tr, texts) ==
    IF Len(tr) # Len(texts) THEN PadWithOriginals(tr, texts) ELSE tr

\* lines 140-144
Reconcile(tr, texts) ==
    IF Len(tr) # Len(texts)
    THEN Take(PadWithOriginals(tr, texts), Len(texts))
    ELSE tr

\* the attempt raises: the remote call raised
AttemptRaises(resp) == resp.kind = "raise"

\* lines 131-150: the value one attempt returns
TranslateReturn(texts, resp, b) ==
    IF resp.kind = "text"
    THEN IF b THEN Reconcile(Segments(Strip(resp.text)), texts)
              ELSE Strip(resp.text)
    ELSE texts

\* stopping one attempt late
ShouldStopLate(n) == n > StopAfterAttempt

\* stop=stop_after_attempt(3)
ShouldStop(n) == n >= StopAfterAttempt

\* wait=wait_exponential(multiplier=1, min=4, max=10), after attempt n
BackoffWait(n) ==
    Max(Max(0, WaitMin), Min(WaitMultiplier * Pow2(n - 1), WaitMax))

NewEntry(locs) ==
    [locs |-> locs, outcome |-> "pending", written |-> 0, wfail |-> FALSE]

Last(s) == s[Len(s)]
SetLast(s, e) == [s EXCEPT ![Len(s)] = e]

\* get_token called on the first attempt only
ThrottledOnce(n, attempt) == IF attempt = 1 THEN n + 1 ELSE n

\* line 95: self.throttler.get_token() is called, and returns, in every
\* attempt; n calls had returned before
Throttled(n, attempt) == n + 1

\* one attempt of translate_texts under the retry decorator, the backend
\* answering with one of the responses of R
TranslateAttempt(R) ==
    /\ pc = "translate"
    /\ IF text_batch = <<>>
       THEN \* lines 91-92
            /\ translations' = <<>>
            /\ pc' = "write"
            /\ dispatch_log' = SetLast(dispatch_log,
                   [Last(dispatch_log) EXCEPT !.outcome = "returned"])
            /\ UNCHANGED <<bvars, attempt_number, attempts, response, waits,
                           error_log, remote_calls, exc, used_models>>
       ELSE \E dt \in 0..MaxStep, late \in 0..MaxLate, resp \in R :
            LET t == IF now + dt <= MaxTime THEN now + dt ELSE now
                g == GetToken(tokens, last_update, t, late)
                e == Last(dispatch_log)
            IN  /\ (g.slept \/ late = 0)
                /\ tokens' = g.tokens
                /\ last_update' = g.last_update
                /\ now' = g.now
                /\ calls' = Throttled(calls, attempt_number)
                /\ returned' = Throttled(returned, attempt_number)
                /\ remote_calls' = remote_calls + 1
                /\ used_models' = used_models \cup {model_id}
                /\ attempts' = attempts + 1
                /\ response' = resp
                /\ UNCHANGED <<lock, tpc, wake, pre, post, slept, grant>>
                /\ IF AttemptRaises(resp)
                   THEN /\ error_log' = error_log + 1
                        /\ translations' = translations
                        /\ IF ShouldStop(attempt_number)
                           THEN /\ pc' = "except"
                                /\ exc' = "translate_texts"
                                /\ UNCHANGED <<attempt_number, waits>>
                           ELSE /\ attempt_number' = attempt_number + 1
                                /\ waits' = Append(waits,
                                                BackoffWait(attempt_number))
                                /\ UNCHANGED <<pc, exc>>
                        /\ dispatch_log' = SetLast(dispatch_log,
                               [e EXCEPT !.outcome =
                                             IF ShouldStop(attempt_number)
                                             THEN "failed" ELSE "pending"])
                   ELSE /\ translations' = TranslateReturn(text_batch, resp,
                                                           batch)
                        /\ pc' = "write"
                        /\ dispatch_log' = SetLast(dispatch_log,
                               [e EXCEPT !.outcome = "returned"])
                        /\ UNCHANGED <<attempt_number, waits, error_log, exc>>
    /\ widx' = 0
    /\ UNCHANGED <<doc, orig, batch_size, pos, text_batch, text_locations,
                   total_processed, failed_batches, phase, saved, batch,
                   max_retries, translation_progress, ovars, requests,
                   model_id, selected_model>>

(* ------------- translate_presentation_with_batching -------------------- *)
\* if run.text.strip()
NonEmpty(text) == Strip(text) # <<>>

\* sum(1 for ... if run.text.strip())
RECURSIVE CountItems(_)
CountItems(d) ==
    IF d = <<>> THEN 0
    ELSE (IF NonEmpty(Head(d)) THEN 1 ELSE 0) + CountItems(Tail(d))

\* dispatching one fragment late
BatchOverFull(n, size) == n > size

\* if len(text_batch) >= batch_size
BatchFull(n, size) == n >= size

\* writing every text to the last run of the batch
RunAtLast(locs, i) == locs[Len(locs)]

\* run = text_locations[i][3]
RunAt(locs, i) == locs[i + 1]

\* translate_texts is called with the open batch
Dispatch(locs, ph) ==
    /\ pc' = "translate"
    /\ phase' = ph
    /\ attempt_number' = 1
    /\ attempts' = 0
    /\ waits' = <<>>
    /\ response' = NoResponse
    /\ dispatch_log' = Append(dispatch_log, NewEntry(locs))

\* lines 160-164: the presentation is opened, or cannot be
Open ==
    /\ pc = "start"
    /\ \/ /\ pc' = "count"
          /\ exc' = "none"
       \/ /\ pc' = "raised"
          /\ exc' = "Presentation"
    /\ UNCHANGED <<bvars, cvars, ovars, rvars, doc, orig, batch_size, pos, text_batch,
                   text_locations, total_processed, failed_batches,
                   translations, widx, phase, saved, translation_progress,
                   dispatch_log>>

\* lines 171-179
SetTotal ==
    /\ pc = "count"
    /\ translation_progress' =
           [translation_progress EXCEPT !.total = CountItems(doc)]
    /\ pc' = "reset"
    /\ UNCHANGED <<bvars, cvars, ovars, rvars, doc, orig, batch_size, pos, text_batch,
                   text_locations, total_processed, failed_batches,
                   translations, widx, phase, saved, exc, dispatch_log>>

\* line 180
SetCurrent ==
    /\ pc = "reset"
    /\ translation_progress' = [translation_progress EXCEPT !.current = 0]
    /\ pc' = "scan"
    /\ UNCHANGED <<bvars, cvars, ovars, rvars, doc, orig, batch_size, pos, text_batch,
                   text_locations, total_processed, failed_batches,
                   translations, widx, phase, saved, exc, dispatch_log>>

\* lines 184-196: the next run of the traversal
Scan ==
    /\ pc = "scan"
    /\ pos <= Len(doc)
    /\ pos' = pos + 1
    /\ IF NonEmpty(doc[pos])
       THEN /\ text_batch' = Append(text_batch, doc[pos])
            /\ text_locations' = Append(text_locations, pos)
            /\ IF BatchFull(Len(text_batch) + 1, batch_size)
               THEN Dispatch(Append(text_locations, pos), "loop")
               ELSE UNCHANGED <<pc, phase, attempt_number, attempts, waits,
                               response, dispatch_log>>
       ELSE UNCHANGED <<text_batch, text_locations, pc, phase, attempt_number,
                       attempts, waits, response, dispatch_log>>
    /\ UNCHANGED <<bvars, ovars, rvars, max_retries, remote_calls, batch, error_log, doc, orig, batch_size,
                   total_processed, failed_batches, translations, widx, saved,
                   exc, translation_progress>>

\* lines 213-216: the traversal is over
Flush ==
    /\ pc = "scan"
    /\ pos > Len(doc)
    /\ IF text_batch # <<>>
       THEN Dispatch(text_locations, "final")
       ELSE /\ pc' = "save"
            /\ UNCHANGED <<phase, attempt_number, attempts, waits, response,
                           dispatch_log>>
    /\ UNCHANGED <<bvars, ovars, rvars, max_retries, remote_calls, batch, error_log, doc, orig, batch_size, pos,
                   text_batch, text_locations, total_processed,
                   failed_batches, translations, widx, saved, exc,
                   translation_progress>>

\* what one write-back does: it succeeds, run.text = translation raises, or
\* set_consistent_font raises after the text was set
WriteOutcomes == {"ok", "raise_text", "raise_font"}

\* the text is set unless the assignment itself raised
TextSet(o) == o # "raise_text"

\* lines 197-204 and 217-222: one turn of the write-back loop
WriteBack ==
    /\ pc = "write"
    /\ widx < Len(translations)
    /\ widx' = widx + 1
    /\ IF widx < Len(text_locations)
       THEN \E o \in WriteOutcomes :
            LET e == Last(dispatch_log) IN
            /\ doc' = IF TextSet(o)
                      THEN [doc EXCEPT ![RunAt(text_locations, widx)] =
                                           translations[widx + 1]]
                      ELSE doc
            /\ IF o = "ok"
               THEN /\ total_processed' = total_processed + 1
                    /\ translation_progress' =
                           IF phase = "loop"
                           THEN [translation_progress EXCEPT
                                     !.current = total_processed + 1]
                           ELSE translation_progress
                    /\ dispatch_log' = SetLast(dispatch_log,
                           [e EXCEPT !.written = @ + 1])
                    /\ UNCHANGED <<pc, exc>>
               ELSE /\ pc' = "except"
                    /\ exc' = "write_back"
                    /\ dispatch_log' = SetLast(dispatch_log,
                           [e EXCEPT !.wfail = TRUE,
                                     !.written = IF TextSet(o) THEN @ + 1
                                                 ELSE @])
                    /\ UNCHANGED <<total_processed, translation_progress>>
       ELSE UNCHANGED <<doc, total_processed, translation_progress,
                       dispatch_log, pc, exc>>
    /\ UNCHANGED <<bvars, cvars, ovars, rvars, orig, batch_size, pos, text_batch,
                   text_locations, failed_batches, translations, phase, saved>>

\* lines 205-206: the loop over the translations is over
WriteDone ==
    /\ pc = "write"
    /\ widx >= Len(translations)
    /\ IF phase = "loop"
       THEN /\ text_batch' = <<>>
            /\ text_locations' = <<>>
            /\ pc' = "scan"
       ELSE /\ pc' = "save"
            /\ UNCHANGED <<text_batch, text_locations>>
    /\ response' = NoResponse
    /\ translations' = <<>>
    /\ widx' = 0
    /\ UNCHANGED <<bvars, ovars, rvars, max_retries, remote_calls, batch, attempt_number, attempts, waits, error_log,
                   doc, orig, batch_size, pos, total_processed, failed_batches,
                   phase, saved, exc, translation_progress, dispatch_log>>

\* the except clause handing the failed batch to translate_texts again
ExceptRedispatch ==
    /\ pc = "except"
    /\ failed_batches' = Append(failed_batches,
                                [texts |-> text_batch, locs |-> text_locations])
    /\ exc' = "none"
    /\ Dispatch(text_locations, phase)
    /\ translations' = <<>>
    /\ widx' = 0
    /\ UNCHANGED <<bvars, ovars, rvars, max_retries, remote_calls, batch, error_log,
                   doc, orig, batch_size, pos, text_batch, text_locations,
                   total_processed, saved, translation_progress>>

\* the except clause advancing the progress counter past the failed batch
ExceptCountsProgress ==
    /\ pc = "except"
    /\ failed_batches' = Append(failed_batches,
                                [texts |-> text_batch, locs |-> text_locations])
    /\ translation_progress' =
           [translation_progress EXCEPT !.current = @ + Len(text_batch)]
    /\ exc' = "none"
    /\ IF phase = "loop"
       THEN /\ text_batch' = <<>>
            /\ text_locations' = <<>>
            /\ pc' = "scan"
       ELSE /\ pc' = "save"
            /\ UNCHANGED <<text_batch, text_locations>>
    /\ response' = NoResponse
    /\ translations' = <<>>
    /\ widx' = 0
    /\ UNCHANGED <<bvars, ovars, rvars, max_retries, remote_calls, batch,
                   attempt_number, attempts, waits, error_log, doc, orig,
                   batch_size, pos, total_processed, phase, saved,
                   dispatch_log>>

\* the final batch without its except clause
ExceptFinalEscapes ==
    /\ pc = "except"
    /\ IF phase = "loop"
       THEN /\ failed_batches' = Append(failed_batches,
                    [texts |-> text_batch, locs |-> text_locations])
            /\ exc' = "none"
            /\ text_batch' = <<>>
            /\ text_locations' = <<>>
            /\ pc' = "scan"
       ELSE /\ pc' = "raised"
            /\ UNCHANGED <<failed_batches, exc, text_batch, text_locations>>
    /\ response' = NoResponse
    /\ translations' = <<>>
    /\ widx' = 0
    /\ UNCHANGED <<bvars, ovars, rvars, max_retries, remote_calls, batch, attempt_number, attempts, waits, error_log,
                   doc, orig, batch_size, pos, total_processed, phase, saved,
                   translation_progress, dispatch_log>>

\* lines 207-211 and 223-225: except Exception around the call and the loop
ExceptBatch ==
    /\ pc = "except"
    /\ failed_batches' = Append(failed_batches,
                                [texts |-> text_batch, locs |-> text_locations])
    /\ exc' = "none"
    /\ IF phase = "loop"
       THEN /\ text_batch' = <<>>
            /\ text_locations' = <<>>
            /\ pc' = "scan"
       ELSE /\ pc' = "save"
            /\ UNCHANGED <<text_batch, text_locations>>
    /\ response' = NoResponse
    /\ translations' = <<>>
    /\ widx' = 0
    /\ UNCHANGED <<bvars, ovars, rvars, max_retries, remote_calls, batch, attempt_number, attempts, waits, error_log,
                   doc, orig, batch_size, pos, total_processed, phase, saved,
                   translation_progress, dispatch_log>>

\* lines 227-232: the presentation is saved, or cannot be
Save ==
    /\ pc = "save"
    /\ \/ /\ saved' = TRUE
          /\ pc' = "done"
          /\ exc' = "none"
       \/ /\ saved' = FALSE
          /\ pc' = "raised"
          /\ exc' = "save"
    /\ UNCHANGED <<bvars, cvars, ovars, rvars, doc, orig, batch_size, pos, text_batch,
                   text_locations, total_processed, failed_batches,
                   translations, widx, phase, translation_progress,
                   dispatch_log>>

(* ------------- a second run of the pipeline in the process ------------- *)
\* what the run leaves unchanged when the other run writes the counter
OtherFrame ==
    UNCHANGED <<bvars, cvars, rvars, doc, orig, pc, batch_size, pos, text_batch,
                text_locations, total_processed, failed_batches, translations,
                widx, phase, saved, exc, dispatch_log>>

\* lines 171-176 of the other run: it has counted the items of its document
OtherCount ==
    /\ other_pc = "idle"
    /\ \E n \in 0..MaxRuns : other_total' = n
    /\ other_pc' = "count"
    /\ UNCHANGED <<other_processed, translation_progress>>
    /\ OtherFrame

\* line 179 of the other run
OtherSetTotal ==
    /\ other_pc = "count"
    /\ translation_progress' =
           [translation_progress EXCEPT !.total = other_total]
    /\ other_pc' = "reset"
    /\ UNCHANGED <<other_total, other_processed>>
    /\ OtherFrame

\* line 180 of the other run
OtherSetCurrent ==
    /\ other_pc = "reset"
    /\ translation_progress' = [translation_progress EXCEPT !.current = 0]
    /\ other_processed' = 0
    /\ other_pc' = "loop"
    /\ UNCHANGED other_total
    /\ OtherFrame

\* lines 202-203 of the other run
OtherWrite ==
    /\ other_pc = "loop"
    /\ other_processed < other_total
    /\ other_processed' = other_processed + 1
    /\ translation_progress' =
           [translation_progress EXCEPT !.current = other_processed + 1]
    /\ UNCHANGED <<other_pc, other_total>>
    /\ OtherFrame

\* lines 213-232 of the other run: it leaves the loop and returns or raises
OtherReturn ==
    /\ other_pc = "loop"
    /\ other_pc' = "done"
    /\ other_total' = 0
    /\ other_processed' = 0
    /\ UNCHANGED translation_progress
    /\ OtherFrame

(* ------------------------ /translate requests ------------------------- *)
\* lines 446-466: the run of the previous request has returned or raised and
\* the next request arrives with presentation d and model m; the translator,
\* its bucket and the progress counter are those of the process
NewRequest ==
    /\ pc \in {"done", "raised"}
    /\ requests < MaxRequests
    /\ requests' = requests + 1
    /\ \E m \in Models :
          /\ selected_model' = m
          /\ model_id' = m
    /\ used_models' = {}
    /\ \E d \in SeqsUpTo({<<"y">>}, MaxRuns) :
          /\ doc' = d
          /\ orig' = d
    /\ pc' = "start"
    /\ pos' = 1
    /\ text_batch' = <<>>
    /\ text_locations' = <<>>
    /\ total_processed' = 0
    /\ failed_batches' = <<>>
    /\ translations' = <<>>
    /\ widx' = 0
    /\ phase' = "loop"
    /\ saved' = FALSE
    /\ exc' = "none"
    /\ dispatch_log' = <<>>
    /\ attempt_number' = 1
    /\ attempts' = 0
    /\ response' = NoResponse
    /\ waits' = <<>>
    /\ UNCHANGED <<bvars, ovars, batch, error_log, max_retries, remote_calls,
                   batch_size, translation_progress>>

\* lines 446-455 of a request that arrives while the run of an earlier
\* request is in progress: it assigns the model it selected to the shared
\* translator
OtherRequest ==
    /\ pc \notin {"done", "raised"}
    /\ requests < MaxRequests
    /\ requests' = requests + 1
    /\ \E m \in Models : model_id' = m
    /\ UNCHANGED <<bvars, cvars, pvars, ovars, selected_model, used_models>>

(* --------------------------- specifications ---------------------------- *)
\* texts of the runs of a presentation
RunTexts == {<<" ", "y">>, <<" ">>, <<>>}

\* what the backend answers during a run
RunResponses ==
    {Raise, NoOutput, EmptyContent, TextResponse(<<>>),
     TextResponse(<<"T", "-", "-", "-", " ", "U">>),
     TextResponse(<<"T", "-", "-", "-", "U", "-", "-", "-", "V">>)}

CallIdle ==
    /\ batch = TRUE
    /\ attempt_number = 1
    /\ attempts = 0
    /\ response = NoResponse
    /\ waits = <<>>
    /\ error_log = 0
    /\ max_retries = DefaultMaxRetries
    /\ remote_calls = 0

\* one request, which selected the model the translator was built with
RequestIdle ==
    /\ requests = 1
    /\ model_id = DefaultModelId
    /\ selected_model = DefaultModelId
    /\ used_models = {}

\* no other run in the process
OtherIdle ==
    /\ other_pc = "idle"
    /\ other_total = 0
    /\ other_processed = 0

RunIdle ==
    /\ doc = <<>>
    /\ orig = <<>>
    /\ pc = "idle"
    /\ batch_size = 1
    /\ pos = 1
    /\ text_batch = <<>>
    /\ text_locations = <<>>
    /\ total_processed = 0
    /\ failed_batches = <<>>
    /\ translations = <<>>
    /\ widx = 0
    /\ phase = "loop"
    /\ saved = FALSE
    /\ exc = "none"
    /\ translation_progress = [current |-> 0, total |-> 0]
    /\ dispatch_log = <<>>

\* one run over a presentation, translator and bucket freshly built
Init ==
    /\ BucketInit
    /\ CallIdle
    /\ OtherIdle
    /\ RequestIdle
    /\ doc \in SeqsUpTo(RunTexts, MaxRuns)
    /\ orig = doc
    /\ batch_size \in 1..MaxBatchSize
    /\ pc = "start"
    /\ pos = 1
    /\ text_batch = <<>>
    /\ text_locations = <<>>
    /\ total_processed = 0
    /\ failed_batches = <<>>
    /\ translations = <<>>
    /\ widx = 0
    /\ phase = "loop"
    /\ saved = FALSE
    /\ exc = "none"
    /\ translation_progress = [current |-> 0, total |-> 0]
    /\ dispatch_log = <<>>

RunAttempt == TranslateAttempt(RunResponses)

Next ==
    \/ Open
    \/ SetTotal
    \/ SetCurrent
    \/ Scan
    \/ Flush
    \/ RunAttempt
    \/ WriteBack
    \/ WriteDone
    \/ ExceptBatch
    \/ Save

Spec == Init /\ [][Next]_vars

\* the run is the only thread of its request and every remote call returns
\* or raises: a statement that can be executed is executed
LiveResponses == {Raise, TextResponse(<<"T">>)}

LiveAttempt == TranslateAttempt(LiveResponses)

NextLive ==
    \/ Open
    \/ SetTotal
    \/ SetCurrent
    \/ Scan
    \/ Flush
    \/ LiveAttempt
    \/ WriteBack
    \/ WriteDone
    \/ ExceptBatch
    \/ Save

SpecLive == Init /\ [][NextLive]_vars /\ WF_vars(NextLive)

\* two runs in one process, as two requests served by threads
TwoRunsTexts == {<<"y">>}
TwoRunsResponses == {TextResponse(<<"T">>)}

InitTwoRuns ==
    /\ BucketInit
    /\ CallIdle
    /\ OtherIdle
    /\ RequestIdle
    /\ doc \in SeqsUpTo(TwoRunsTexts, MaxRuns)
    /\ orig = doc
    /\ batch_size \in 1..MaxBatchSize
    /\ pc = "start"
    /\ pos = 1
    /\ text_batch = <<>>
    /\ text_locations = <<>>
    /\ total_processed = 0
    /\ failed_batches = <<>>
    /\ translations = <<>>
    /\ widx = 0
    /\ phase = "loop"
    /\ saved = FALSE
    /\ exc = "none"
    /\ translation_progress = [current |-> 0, total |-> 0]
    /\ dispatch_log = <<>>

TwoRunsAttempt == TranslateAttempt(TwoRunsResponses)

NextTwoRuns ==
    \/ Open
    \/ SetTotal
    \/ SetCurrent
    \/ Scan
    \/ Flush
    \/ TwoRunsAttempt
    \/ WriteBack
    \/ WriteDone
    \/ ExceptBatch
    \/ Save
    \/ OtherCount
    \/ OtherSetTotal
    \/ OtherSetCurrent
    \/ OtherWrite
    \/ OtherReturn

SpecTwoRuns == InitTwoRuns /\ [][NextTwoRuns]_vars

\* translate_texts called alone on a translator built with any max_retries
RetryTexts == {<<"x">>}

InitRetry ==
    /\ BucketInit
    /\ OtherIdle
    /\ RequestIdle
    /\ max_retries \in 1..MaxRetriesArg
    /\ remote_calls = 0
    /\ attempt_number = 1
    /\ attempts = 0
    /\ response = NoResponse
    /\ waits = <<>>
    /\ error_log = 0
    /\ batch = TRUE
    /\ text_batch \in SeqsUpTo(RetryTexts, MaxTexts)
    /\ doc = <<>>
    /\ orig = <<>>
    /\ pc = "translate"
    /\ batch_size = 1
    /\ pos = 1
    /\ text_locations = <<>>
    /\ total_processed = 0
    /\ failed_batches = <<>>
    /\ translations = <<>>
    /\ widx = 0
    /\ phase = "final"
    /\ saved = FALSE
    /\ exc = "none"
    /\ translation_progress = [current |-> 0, total |-> 0]
    /\ dispatch_log = <<NewEntry(<<>>)>>

RetryAttempt == TranslateAttempt(RunResponses)

NextRetry == RetryAttempt

SpecRetry == InitRetry /\ [][NextRetry]_vars

\* translate_texts called alone against a backend that echoes the combined
\* text of line 98 back unchanged
EchoTexts == {<<"a">>, <<"c", " ", "d">>, <<"a", "-", "-", "-", "b">>}

\* line 98
CombinedText(texts) == Join(texts, JoinDelimiter)

InitEcho ==
    /\ BucketInit
    /\ CallIdle
    /\ OtherIdle
    /\ RequestIdle
    /\ text_batch \in SeqsUpTo(EchoTexts, MaxTexts)
    /\ doc = <<>>
    /\ orig = <<>>
    /\ pc = "translate"
    /\ batch_size = 1
    /\ pos = 1
    /\ text_locations = <<>>
    /\ total_processed = 0
    /\ failed_batches = <<>>
    /\ translations = <<>>
    /\ widx = 0
    /\ phase = "final"
    /\ saved = FALSE
    /\ exc = "none"
    /\ translation_progress = [current |-> 0, total |-> 0]
    /\ dispatch_log = <<NewEntry(<<>>)>>

EchoAttempt == TranslateAttempt({TextResponse(CombinedText(text_batch))})

NextEcho == EchoAttempt

SpecEcho == InitEcho /\ [][NextEcho]_vars

\* requests served one after another by the process
NextSequential ==
    \/ Open
    \/ SetTotal
    \/ SetCurrent
    \/ Scan
    \/ Flush
    \/ TwoRunsAttempt
    \/ WriteBack
    \/ WriteDone
    \/ ExceptBatch
    \/ Save
    \/ NewRequest

SpecSequential == InitTwoRuns /\ [][NextSequential]_vars

\* a run and the requests that arrive while it is in progress
NextTwoRequests ==
    \/ Open
    \/ SetTotal
    \/ SetCurrent
    \/ Scan
    \/ Flush
    \/ TwoRunsAttempt
    \/ WriteBack
    \/ WriteDone
    \/ ExceptBatch
    \/ Save
    \/ OtherRequest

SpecTwoRequests == InitTwoRuns /\ [][NextTwoRequests]_vars

InitBucket == BucketInit /\ CallIdle /\ RunIdle /\ OtherIdle /\ RequestIdle

SpecBucket == InitBucket /\ [][NextBucket]_vars

\* translate_texts called alone, on any texts and any response
ParseTexts == {<<"x">>, <<"y", " ">>}
RespChars == {"a", "-", " "}

ParseResponses ==
    {Raise, NoOutput, EmptyContent}
        \cup {TextResponse(r) : r \in SeqsUpTo(RespChars, MaxRespLen)}

InitParse ==
    /\ BucketInit
    /\ OtherIdle
    /\ RequestIdle
    /\ max_retries = DefaultMaxRetries
    /\ remote_calls = 0
    /\ attempt_number = 1
    /\ attempts = 0
    /\ response = NoResponse
    /\ waits = <<>>
    /\ error_log = 0
    /\ \/ batch = TRUE /\ text_batch \in SeqsUpTo(ParseTexts, MaxTexts)
       \/ batch = FALSE /\ text_batch \in ParseTexts \cup {<<>>}
    /\ doc = <<>>
    /\ orig = <<>>
    /\ pc = "translate"
    /\ batch_size = 1
    /\ pos = 1
    /\ text_locations = <<>>
    /\ total_processed = 0
    /\ failed_batches = <<>>
    /\ translations = <<>>
    /\ widx = 0
    /\ phase = "final"
    /\ saved = FALSE
    /\ exc = "none"
    /\ translation_progress = [current |-> 0, total |-> 0]
    /\ dispatch_log = <<NewEntry(<<>>)>>

ParseAttempt == TranslateAttempt(ParseResponses)

NextParse == ParseAttempt

SpecParse == InitParse /\ [][NextParse]_vars

(* ------------------------------ claims --------------------------------- *)
Range(f) == {f[k] : k \in DOMAIN f}
LogLocs == [k \in DOMAIN dispatch_log |-> dispatch_log[k].locs]
Blank(text) == \A k \in DOMAIN text : text[k] \in {" ", "\n"}

\* C1: a batch whose remote call fails on every attempt never ends the run:
\* the exception is caught, a run that reaches the end has saved the document,
\* the failed batch has exactly one entry in failed_batches, each of its runs
\* holds its original text, and every batch whose call returned and whose
\* write-back did not raise is written back whole; whichever batch failed.
C1_FailureIsolation ==
    /\ exc = "translate_texts" => pc = "except"
    /\ pc = "raised" => exc \in {"Presentation", "save"}
    /\ pc = "done" => saved
    /\ \A k \in DOMAIN dispatch_log :
          LET e == dispatch_log[k] IN
          /\ e.outcome = "failed" =>
                /\ \A p \in Range(e.locs) : doc[p] = orig[p]
                /\ e.written = 0
                /\ (k < Len(dispatch_log) \/ pc # "except") =>
                      Cardinality({j \in DOMAIN failed_batches :
                                     failed_batches[j].locs = e.locs}) = 1
          /\ (pc = "done" /\ e.outcome = "returned" /\ ~e.wfail) =>
                e.written = Len(e.locs)

\* three batches, the last one the final partial batch, only the second failed
C1_Witness ==
    /\ pc = "done"
    /\ saved
    /\ Len(dispatch_log) = 3
    /\ dispatch_log[1].outcome = "returned" /\ dispatch_log[1].written = 1
    /\ dispatch_log[2].outcome = "failed"
    /\ dispatch_log[3].outcome = "returned" /\ dispatch_log[3].written = 1
    /\ Len(failed_batches) = 1

\* only the final partial batch failed
C1_WitnessFinal ==
    /\ pc = "done"
    /\ batch_size = 2
    /\ Len(dispatch_log) = 2
    /\ Len(dispatch_log[2].locs) = 1
    /\ dispatch_log[2].outcome = "failed"
    /\ dispatch_log[1].written = 2

StrictlyIncreasing(s) == \A j, k \in DOMAIN s : j < k => s[j] < s[k]

RECURSIVE Flatten(_)
Flatten(ss) == IF ss = <<>> THEN <<>> ELSE Head(ss) \o Flatten(Tail(ss))

\* C2: the presentation keeps its runs, the batches are dispatched in
\* discovery order, and the only change ever made to a run's text is that the
\* k-th text returned for the batch being written is put in the k-th run of
\* that batch, k going up one by one.
C2_OrderPreservation ==
    /\ [](/\ Len(doc) = Len(orig)
          /\ StrictlyIncreasing(Flatten(LogLocs))
          /\ pc = "write" =>
                text_locations = dispatch_log[Len(dispatch_log)].locs)
    /\ [][doc' # doc =>
            /\ pc = "write"
            /\ widx < Len(text_locations)
            /\ widx' = widx + 1
            /\ doc' = [doc EXCEPT ![text_locations[widx + 1]] =
                                      translations[widx + 1]]]_vars

\* two different texts of one response sit in the two runs of the batch
C2_Witness ==
    /\ pc = "write"
    /\ widx = 2
    /\ Len(text_locations) = 2
    /\ response.kind = "text"
    /\ doc[text_locations[1]] = <<"T">>
    /\ doc[text_locations[2]] = <<"U">>

\* C3: when translate_texts in batch mode returns, the list returned is as
\* long as the list given, whatever the response was.
C3_SameLength ==
    (pc = "write" /\ batch) => Len(translations) = Len(text_batch)

\* a response with more segments than texts was cut
C3_Witness ==
    /\ pc = "write"
    /\ batch
    /\ Len(text_batch) = 2
    /\ response.kind = "text"
    /\ Len(Split(Strip(response.text), SplitDelimiter)) = 3
    /\ Len(translations) = 2

\* the texts the response splits into
RawSegments == Split(Strip(response.text), SplitDelimiter)

\* C4: for n texts and a response of m segments, the i-th text returned is
\* the trimmed i-th segment when i <= m and the i-th original otherwise.
C4_ReferenceRule ==
    (pc = "write" /\ batch /\ response.kind = "text" /\ text_batch # <<>>) =>
        /\ DOMAIN translations = DOMAIN text_batch
        /\ \A k \in DOMAIN text_batch :
              translations[k] = IF k <= Len(RawSegments)
                                THEN Strip(RawSegments[k])
                                ELSE text_batch[k]

\* one segment for three texts: the tail is the second and third original
C4_Witness ==
    /\ pc = "write"
    /\ batch
    /\ response.kind = "text"
    /\ Len(text_batch) = 3
    /\ text_batch[1] # text_batch[3]
    /\ Len(RawSegments) = 1
    /\ translations = <<<<"a">>, text_batch[2], text_batch[3]>>

\* the positions of the runs that are neither empty nor blank, in order
RECURSIVE FragmentsFrom(_, _)
FragmentsFrom(d, p) ==
    IF p > Len(d) THEN <<>>
    ELSE (IF Blank(d[p]) THEN <<>> ELSE <<p>>) \o FragmentsFrom(d, p + 1)

RECURSIVE Chunks(_, _)
Chunks(f, n) ==
    IF f = <<>> THEN <<>> ELSE <<Take(f, n)>> \o Chunks(Drop(f, n), n)

TraversalOver ==
    \/ pc \in {"save", "done"}
    \/ pc = "raised" /\ exc = "save"

\* C5: the batches dispatched are the consecutive chunks of batch_size of the
\* non-blank runs in discovery order, the last one shorter when the count is
\* no multiple; no batch is empty, every non-blank run is in exactly one
\* batch and a blank run in none.
C5_BatchAssembly ==
    LET f == FragmentsFrom(orig, 1)
        m == Len(f)
        n == batch_size
    IN  /\ \A k \in DOMAIN LogLocs : LogLocs[k] # <<>>
        /\ \A p \in DOMAIN orig :
              Cardinality({k \in DOMAIN LogLocs : p \in Range(LogLocs[k])})
                  <= (IF Blank(orig[p]) THEN 0 ELSE 1)
        /\ TraversalOver =>
              /\ LogLocs = Chunks(f, n)
              /\ Len(LogLocs) = (m \div n) + (IF m % n = 0 THEN 0 ELSE 1)
              /\ \A k \in 1..(m \div n) : Len(LogLocs[k]) = n
              /\ m % n # 0 => Len(LogLocs[Len(LogLocs)]) = m % n
              /\ \A p \in DOMAIN orig :
                    ~Blank(orig[p]) => \E k \in DOMAIN LogLocs :
                                            p \in Range(LogLocs[k])

\* three fragments and batch_size 2: a batch of 2, then one of 1
C5_Witness ==
    /\ pc = "done"
    /\ batch_size = 2
    /\ Len(FragmentsFrom(orig, 1)) = 3
    /\ LogLocs = <<<<1, 2>>, <<3>>>>

\* C6: tokens stays within 0..capacity in every state, and is below capacity
\* whenever a get_token call returns.
C6_TokenBound ==
    /\ 0 <= tokens /\ tokens <= capacity
    /\ \A t \in Threads : tpc[t] = "release" => tokens < capacity
    /\ grant.thread # NoThread => (0 <= grant.tokens /\ grant.tokens < capacity)

\* a call refilled a partly used bucket up to capacity and took its token
C6_Witness ==
    /\ grant.thread # NoThread
    /\ grant.pre < capacity
    /\ grant.post = capacity
    /\ grant.tokens = capacity - OneToken

\* C7 as claimed: a call that finds less than one token before its refill
\* never returns without having slept.
C7_PreRefillClaim ==
    (grant.thread # NoThread /\ grant.pre < OneToken) => grant.slept

\* C7: a call that has less than one token after its refill never returns
\* without having slept for the time the missing part takes to refill.
C7_PostRefillWait ==
    /\ (grant.thread # NoThread /\ grant.post < OneToken) => grant.slept
    /\ \A t \in Threads :
          (tpc[t] = "release" /\ post[t] < OneToken) =>
              (slept[t] /\ now >= wake[t])
    /\ \A t \in Threads :
          tpc[t] = "sleeping" => wake[t] - last_update >= OneToken - post[t]

\* a call found a fraction of a token after the refill and slept
C7_Witness ==
    /\ grant.thread # NoThread
    /\ grant.post > 0
    /\ grant.post < OneToken
    /\ grant.slept

InsideGetToken == {t \in Threads :
                     tpc[t] \in {"locked", "refilled", "sleeping", "release"}}

\* C8: at most one thread is between the refill and the deduction, and at
\* time now at most capacity + rate * now calls have returned.
C8_NoDoubleGrant ==
    /\ Cardinality(InsideGetToken) <= 1
    /\ returned * OneToken <= capacity + now

\* one thread sleeps in get_token while another waits for the lock, the
\* bucket having granted all it could so far
C8_Witness ==
    /\ \E t, u \in Threads : tpc[t] = "sleeping" /\ tpc[u] = "waiting"
    /\ returned * OneToken = capacity + now

\* C9: a call that raises on every attempt makes exactly 3 attempts, then the
\* exception reaches the run, which puts the whole batch in failed_batches
\* and goes on; a raise before the 3rd attempt is retried; once an attempt
\* has returned no further attempt is made for the batch.
C9_RetryCeiling ==
    /\ [](/\ attempts <= 3
          /\ (pc = "except" /\ exc = "translate_texts") =>
                (attempts = 3 /\ response.kind = "raise")
          /\ (pc = "translate" /\ attempts > 0) => response.kind = "raise")
    /\ [][/\ (pc = "translate" /\ response'.kind = "raise" /\ attempts' < 3)
                => pc' = "translate"
          /\ pc = "write" => attempts' = attempts
          /\ pc = "except" =>
                /\ failed_batches' =
                       Append(failed_batches,
                              [texts |-> text_batch,
                               locs |-> dispatch_log[Len(dispatch_log)].locs])
                /\ pc' \in {"scan", "save"}]_vars

\* the third attempt raised and the exception is in the run's except clause
C9_Witness ==
    /\ pc = "except"
    /\ exc = "translate_texts"
    /\ attempts = 3
    /\ Len(text_batch) = 2

\* C10: an attempt answered without output message, with an empty content
\* list or with an empty text never returns normally.
C10_MalformedIsFailure ==
    (pc = "write" /\ text_batch # <<>>) =>
        (response.kind = "text" /\ response.text # <<>>)

\* the batches whose write-back raised
WriteFailed == {k \in DOMAIN dispatch_log : dispatch_log[k].wfail}

\* C11: once the write-back of a batch has raised, the exception is on its
\* way to the caller or has reached it: the run dispatches nothing more and
\* the batch is not put in failed_batches.
C11_WriteBackFatal ==
    \A k \in WriteFailed :
        /\ pc \in {"except", "raised"}
        /\ k = Len(dispatch_log)
        /\ \A j \in DOMAIN failed_batches :
              failed_batches[j].locs # dispatch_log[k].locs

\* C12: every run of every batch in failed_batches holds its original text.
C12_FailedBatchUntouched ==
    \A j \in DOMAIN failed_batches :
        \A p \in Range(failed_batches[j].locs) : doc[p] = orig[p]

\* lines 179-180 have run
ProgressInitialised ==
    \/ pc \in {"scan", "translate", "write", "except", "save", "done"}
    \/ pc = "raised" /\ exc = "save"

\* C13: in a run executed alone, once total and current are set, current
\* never decreases and total never changes, and current equals total only
\* when no batch has failed.
C13_ProgressMonotone ==
    /\ [](/\ other_pc = "idle"
          /\ (ProgressInitialised /\
              translation_progress.current = translation_progress.total) =>
                /\ failed_batches = <<>>
                /\ \A k \in DOMAIN dispatch_log :
                      dispatch_log[k].outcome # "failed"
                          /\ ~dispatch_log[k].wfail)
    /\ [][ProgressInitialised =>
            /\ translation_progress'.current >= translation_progress.current
            /\ translation_progress'.total = translation_progress.total]_vars

\* three fragments written back one by one, the counter at 3 of 3
C13_Witness ==
    /\ pc = "done"
    /\ translation_progress = [current |-> 3, total |-> 3]
    /\ failed_batches = <<>>

\* the run is between its line 180 and its return
RunInProgress == pc \in {"scan", "translate", "write", "except", "save"}

\* C14: with a second run in the process, a run in progress never sees
\* current above total, never sees current decrease and never sees total
\* change.
C14_CounterPerRun ==
    /\ [](RunInProgress =>
            translation_progress.current <= translation_progress.total)
    /\ [][RunInProgress =>
            /\ translation_progress'.current >= translation_progress.current
            /\ translation_progress'.total = translation_progress.total]_vars

\* C15: a run that returns with no failed batch has counted every fragment,
\* those of the final partial batch included.
C15_FinalBatchCounted ==
    (pc = "done" /\ failed_batches = <<>>) =>
        translation_progress.current = translation_progress.total

\* C16: a translate_texts call makes at most max_retries attempts.
C16_ConfiguredCeiling == attempts <= max_retries

\* C17: when the backend echoes the combined text, the split yields one
\* segment per input text and every input text comes back in its place.
C17_EchoRoundTrip ==
    (pc = "write" /\ response.kind = "text") =>
        /\ Len(Segments(Strip(response.text))) = Len(text_batch)
        /\ translations = [i \in 1..Len(text_batch) |-> Strip(text_batch[i])]

\* C18: each wait of a translate_texts call is double the wait before it,
\* or the cap once the double would pass the cap, and no wait exceeds the cap.
C18_WaitsDouble ==
    /\ \A k \in DOMAIN waits : waits[k] <= WaitMax
    /\ \A k \in 1..(Len(waits) - 1) :
          waits[k + 1] = Min(2 * waits[k], WaitMax)

\* the dispatches of the batch recorded as failed_batches[j]
DispatchesOf(j) ==
    {k \in DOMAIN dispatch_log : dispatch_log[k].locs = failed_batches[j].locs}

\* C19: every run ends, saved and returned or raised to the caller, no call
\* of translate_texts makes more than 3 attempts, and a batch recorded as
\* failed was dispatched once and only once.
C19_RunTerminates ==
    /\ <>(pc \in {"done", "raised"})
    /\ [](attempts <= StopAfterAttempt)
    /\ [](\A j \in DOMAIN failed_batches : Cardinality(DispatchesOf(j)) = 1)

\* a run that returned after its last batch failed on the third attempt
C19_Witness ==
    /\ pc = "done"
    /\ saved
    /\ Len(dispatch_log) >= 2
    /\ Len(failed_batches) >= 1
    /\ Last(dispatch_log).outcome = "failed"
    /\ attempts = StopAfterAttempt

\* C20: a translate_texts call has issued no more remote calls than it has
\* acquired tokens, it has acquired one token and issued one remote call in
\* each attempt made, and on an empty list it has done neither.
C20_TokenPerAttempt ==
    /\ remote_calls <= returned
    /\ returned = attempts
    /\ remote_calls = attempts
    /\ text_batch = <<>> => (returned = 0 /\ remote_calls = 0)

\* the third attempt of a call has raised
C20_Witness ==
    /\ pc = "except"
    /\ text_batch # <<>>
    /\ attempts = StopAfterAttempt
    /\ returned = StopAfterAttempt
    /\ remote_calls = StopAfterAttempt

\* C21: over runs executed one after another, the progress counter always
\* has 0 <= current <= total.
C21_CounterInRange ==
    /\ 0 <= translation_progress.current
    /\ translation_progress.current <= translation_progress.total

\* C22: every model id the run has passed to the backend is the model its
\* own request selected.
C22_RunUsesSelectedModel == used_models \subseteq {selected_model}

====
